---- MODULE Spec2Model ----
(***************************************************************************)
(* A model of bot.py: the timetable bot's command handlers, its identity   *)
(* store (the telegram_users table), the date-argument parser and the      *)
(* response formatter.                                                     *)
(*                                                                         *)
(* Three specifications share the module:                                  *)
(*   Spec        the dispatch of updates to the command handlers;          *)
(*   SpecParse   parse_optional_dates applied to bounded argument lists;   *)
(*   SpecFormat  format_timetable_json applied to a family of payloads.    *)
(***************************************************************************)
EXTENDS Integers, Sequences, FiniteSets, TLC

VARIABLES
    telegram_users,   \* the rows of table telegram_users: [telegram_id, user_id]
    update_queue,     \* updates received and not yet dispatched
    cur,              \* the handler invocation being serviced
    registered,       \* history: per identity, the user of its last completed /register
    pd,               \* SpecParse: one call of parse_optional_dates
    fm                \* SpecFormat: one call of format_timetable_json

vars == <<telegram_users, update_queue, cur, registered, pd, fm>>

(***************************************************************************)
(* Bounds of the model.                                                    *)
(***************************************************************************)
MaxArgs == 3     \* longest argument list given to parse_optional_dates
MaxQueue == 1    \* updates waiting in the update queue

(***************************************************************************)
(* Program constants.                                                      *)
(***************************************************************************)
DefaultSpan == 6     \* timedelta(days=6)
Limit == 4000        \* the [:4000] cut

Min(a, b) == IF a < b THEN a ELSE b

(***************************************************************************)
(* Dates.  A date is the number of days since 2024-02-29; an argument is   *)
(* the text the user typed.  parse_date maps a text to a date or raises;   *)
(* two texts may denote the same date.                                     *)
(***************************************************************************)
DateValue ==
    ("2024-03-01" :> 1) @@ ("March 1, 2024" :> 1) @@ ("2024-03-05" :> 5)
    @@ ("2024-03-10" :> 10)

ArgTexts == DOMAIN DateValue \cup {"not-a-date"}

Todays == {1, 5}

\* date.today() while the handlers of Spec run
Clock == {5}

parse_date(a) ==
    IF a \in DOMAIN DateValue
    THEN [ok |-> TRUE, d |-> DateValue[a]]
    ELSE [ok |-> FALSE, d |-> 0]

\* The for loop of parse_optional_dates over the remaining arguments.
RECURSIVE ParseLoop(_, _, _, _)
ParseLoop(args, default_begin, begin, end) ==
    IF args = <<>> THEN [begin |-> begin, end |-> end]
    ELSE LET r == parse_date(Head(args)) IN
         IF ~r.ok THEN ParseLoop(Tail(args), default_begin, begin, end)
         ELSE IF begin = default_begin
              THEN ParseLoop(Tail(args), default_begin, r.d, end)
              ELSE ParseLoop(Tail(args), default_begin, begin, r.d)

parse_optional_dates(args, today) ==
    ParseLoop(args, today, today, today + DefaultSpan)

(***************************************************************************)
(* Decoded JSON values, as far as format_timetable_json looks at them:     *)
(*   t      the Python type of the value;                                  *)
(*   n      the length of str(value) (for a string, its length);           *)
(*   tr     the value's truthiness;                                        *)
(*   items  a list's elements, or a dict's <<key, value>> pairs in order.  *)
(* A payload is a decoded value with the length of its json.dumps text.    *)
(***************************************************************************)
JNull == [t |-> "null", n |-> 4, tr |-> FALSE, items |-> <<>>]
JNum(n, tr) == [t |-> "num", n |-> n, tr |-> tr, items |-> <<>>]
JStr(n) == [t |-> "str", n |-> n, tr |-> n > 0, items |-> <<>>]
JList(items, n) == [t |-> "list", n |-> n, tr |-> items # <<>>, items |-> items]
JDict(pairs, n) == [t |-> "dict", n |-> n, tr |-> pairs # <<>>, items |-> pairs]

KeyLen(k) ==
    CASE k = "code" -> 4 [] k = "error_message" -> 13 [] k = "error" -> 5
      [] k = "days" -> 4 [] k = "days_list" -> 9 [] k = "raw" -> 3
      [] k = "date" -> 4 [] k = "weekday" -> 7 [] k = "lessons" -> 7
      [] k = "time" -> 4 [] k = "subject" -> 7 [] k = "name" -> 4
      [] k = "room" -> 4 [] k = "teacher" -> 7 [] OTHER -> 1

\* isinstance(v, dict) and k in v
Has(v, k) == v.t = "dict" /\ \E i \in 1..Len(v.items) : v.items[i][1] = k

\* v.get(k, dflt) of a dict v
Get(v, k, dflt) ==
    IF \E i \in 1..Len(v.items) : v.items[i][1] = k
    THEN v.items[CHOOSE i \in 1..Len(v.items) : v.items[i][1] = k][2]
    ELSE dflt

\* for x in v: a list yields its elements, a string its characters, a dict
\* its keys; None, a number or a boolean raises TypeError.
Iter(v) ==
    CASE v.t = "list" -> [ok |-> TRUE, elems |-> v.items]
      [] v.t = "str" -> [ok |-> TRUE, elems |-> [i \in 1..v.n |-> JStr(1)]]
      [] v.t = "dict" ->
           [ok |-> TRUE,
            elems |-> [i \in 1..Len(v.items) |-> JStr(KeyLen(v.items[i][1]))]]
      [] OTHER -> [ok |-> FALSE, elems |-> <<>>]

Returned(len) == [kind |-> "str", len |-> len, exc |-> ""]
ReturnedNonStr == [kind |-> "nonstr", len |-> 0, exc |-> ""]
Raised(e) == [kind |-> "raise", len |-> 0, exc |-> e]

RECURSIVE SumSeq(_)
SumSeq(s) == IF s = <<>> THEN 0 ELSE Head(s) + SumSeq(Tail(s))

RECURSIVE Flatten(_)
Flatten(ss) == IF ss = <<>> THEN <<>> ELSE Head(ss) \o Flatten(Tail(ss))

\* len("\n".join(lines)), lines given by their lengths
JoinLen(lines) == IF lines = <<>> THEN 0 ELSE SumSeq(lines) + (Len(lines) - 1)

EmptyDayLen == 15    \* len("  " + em dash + " Пустий день")

\* f"  {time} — {subj} ({teacher}) [{room}]" of one lesson (a dict)
LessonLine(L) ==
    LET time == Get(L, "time", JStr(0))
        subj == Get(L, "subject", Get(L, "name", JStr(0)))
        room == Get(L, "room", JStr(0))
        teacher == Get(L, "teacher", JStr(0))
    IN 2 + time.n + 3 + subj.n + 2 + teacher.n + 3 + room.n + 1

\* The body of "for day in json_data['days']" for one day: the lines it
\* appends, or the exception it raises.
DayLines(day) ==
    IF day.t # "dict" THEN [ok |-> FALSE, exc |-> "AttributeError", lines |-> <<>>]
    ELSE LET header == Get(day, "date", JStr(0)).n + 2
                       + Get(day, "weekday", JStr(0)).n + 2
             lessons == Get(day, "lessons", JList(<<>>, 2))
             it == Iter(lessons)
         IN IF ~lessons.tr
            THEN [ok |-> TRUE, exc |-> "", lines |-> <<header, EmptyDayLen>>]
            ELSE IF ~it.ok
            THEN [ok |-> FALSE, exc |-> "TypeError", lines |-> <<>>]
            ELSE IF \E i \in 1..Len(it.elems) : it.elems[i].t # "dict"
            THEN [ok |-> FALSE, exc |-> "AttributeError", lines |-> <<>>]
            ELSE [ok |-> TRUE, exc |-> "",
                  lines |-> <<header>> \o
                            [i \in 1..Len(it.elems) |-> LessonLine(it.elems[i])]]

\* branch 1: the payload has "code"
ErrorBranch(v) ==
    LET code == Get(v, "code", JNull)
        em == Get(v, "error_message", JNull)
        e == Get(v, "error", JNull)
        err == IF em.tr THEN em ELSE IF e.tr THEN e ELSE JStr(0)
    IN Returned(16 + code.n + 2 + err.n)

\* branch 2: the payload has "days"
DaysBranch(v) ==
    LET it == Iter(Get(v, "days", JNull)) IN
    IF ~it.ok THEN Raised("TypeError")
    ELSE LET per == [i \in 1..Len(it.elems) |-> DayLines(it.elems[i])]
             bad == {i \in 1..Len(per) : ~per[i].ok}
         IN IF bad # {}
            THEN Raised(per[CHOOSE i \in bad : \A j \in bad : i <= j].exc)
            ELSE Returned(Min(JoinLen(Flatten([i \in 1..Len(per) |-> per[i].lines])),
                              Limit))

\* branch 3: the payload has "days_list"
DaysListBranch(v) ==
    LET it == Iter(Get(v, "days_list", JNull)) IN
    IF ~it.ok THEN Raised("TypeError")
    ELSE Returned(Min(JoinLen([i \in 1..Len(it.elems) |-> it.elems[i].n]), Limit))

\* branch 4: the payload has "raw"; json_data["raw"][:4000]
RawBranch(v) ==
    LET raw == Get(v, "raw", JNull) IN
    CASE raw.t = "str" -> Returned(Min(raw.n, Limit))
      [] raw.t = "list" -> ReturnedNonStr
      [] OTHER -> Raised("TypeError")

\* branch 5: json.dumps(json_data, ensure_ascii=False, indent=2)[:4000]
FallbackBranch(p) == Returned(Min(p.dump, Limit))

format_timetable_json(p) ==
    IF Has(p.v, "code") THEN ErrorBranch(p.v)
    ELSE IF Has(p.v, "days") THEN DaysBranch(p.v)
    ELSE IF Has(p.v, "days_list") THEN DaysListBranch(p.v)
    ELSE IF Has(p.v, "raw") THEN RawBranch(p.v)
    ELSE FallbackBranch(p)

(***************************************************************************)
(* The payloads format_timetable_json is applied to in SpecFormat: every   *)
(* branch, with fields of every JSON type and with short and long texts.   *)
(***************************************************************************)
Lens == {0, 1, 4000, 4001}

Payload(v, dump) == [v |-> v, dump |-> dump]

Scalars == {JNull, JNum(1, TRUE), JNum(1, FALSE), JStr(0), JStr(3)}

Lesson(n) ==
    JDict(<< <<"time", JStr(5)>>, <<"subject", JStr(n)>>,
             <<"teacher", JStr(8)>>, <<"room", JStr(3)>> >>, 60)

NamedLesson == JDict(<< <<"name", JStr(7)>>, <<"subject", JStr(0)>> >>, 30)

LessonsValues ==
    {JList(<<>>, 2), JNull, JNum(1, TRUE), JStr(3), JDict(<<>>, 2),
     JDict(<< <<"a", JNull>> >>, 11), JList(<<JStr(2)>>, 6),
     JList(<<Lesson(10)>>, 62), JList(<<Lesson(4001), NamedLesson>>, 4100)}

DayValues ==
    {JNum(1, TRUE), JStr(10),
     JDict(<< <<"date", JStr(10)>>, <<"weekday", JStr(3)>> >>, 40)}
    \cup {JDict(<< <<"date", JStr(10)>>, <<"weekday", JStr(3)>>,
                   <<"lessons", l>> >>, 60) : l \in LessonsValues}

DaysValues ==
    Scalars \cup {JList(<<>>, 2), JDict(<<>>, 2), JDict(<< <<"a", JNull>> >>, 11)}
    \cup {JList(<<d>>, 62) : d \in DayValues}
    \cup {JList(<<d, JDict(<< <<"date", JStr(4001)>> >>, 4011)>>, 4100) :
            d \in DayValues}

CodePayloads ==
    {Payload(JDict(<< <<"code", c>> >> \o em \o e, 30), 30) :
        c \in {JNum(1, TRUE), JNull, JStr(4001)},
        em \in {<<>>} \cup {<< <<"error_message", JStr(l)>> >> : l \in Lens},
        e \in {<<>>, << <<"error", JStr(3)>> >>, << <<"error", JStr(4001)>> >>,
               << <<"days", JNull>> >>}}

DaysPayloads == {Payload(JDict(<< <<"days", d>> >>, 70), 70) : d \in DaysValues}

DaysListPayloads ==
    {Payload(JDict(<< <<"days_list", x>> >>, 30), 30) :
        x \in Scalars \cup {JList(<<JStr(5), JNum(2, TRUE)>>, 11),
                             JList(<<JStr(4001), JStr(5)>>, 4012),
                             JDict(<< <<"days", JNull>> >>, 14)}}

RawPayloads ==
    {Payload(JDict(<< <<"raw", x>> >>, 12), 12) :
        x \in {JStr(l) : l \in Lens}
              \cup {JNull, JNum(1, TRUE), JList(<<JStr(1)>>, 5), JDict(<<>>, 2)}}

OtherPayloads ==
    {Payload(v, d) :
        v \in Scalars \cup {JList(<<>>, 2), JDict(<< <<"lessons", JNull>> >>, 17)},
        d \in {2, 4000, 4001}}

Payloads ==
    CodePayloads \cup DaysPayloads \cup DaysListPayloads \cup RawPayloads
    \cup OtherPayloads

(***************************************************************************)
(* The relational store.  public.users, public.groups and public.teachers  *)
(* are read-only for the bot; an id of 0 stands for a NULL column (None    *)
(* and 0 are both falsy in the handlers' tests).                           *)
(***************************************************************************)
Users ==
    {[id |-> 1, phone |-> "+380501111111", group_id |-> 1, teacher_id |-> 0],
     [id |-> 2, phone |-> "+380502222222", group_id |-> 0, teacher_id |-> 1],
     [id |-> 3, phone |-> "+380503333333", group_id |-> 2, teacher_id |-> 1],
     [id |-> 4, phone |-> "+380504444444", group_id |-> 9, teacher_id |-> 1],
     [id |-> 5, phone |-> "+380505555555", group_id |-> 0, teacher_id |-> 9],
     [id |-> 6, phone |-> "+380506666666", group_id |-> 0, teacher_id |-> 0]}

Groups == {[id |-> 1, code |-> "202-1-D"], [id |-> 2, code |-> "303-2-M"]}

Teachers == {[id |-> 1, api_id |-> 77]}

NoUser == [id |-> 0, phone |-> "", group_id |-> 0, teacher_id |-> 0]

TelegramIds == {101, 102}

\* SELECT * FROM public.users WHERE phone = %s LIMIT 1: the rows fetchone()
\* may return (NoUser stands for None)
find_user_by_phone(phone) ==
    IF \E u \in Users : u.phone = phone
    THEN {u \in Users : u.phone = phone}
    ELSE {NoUser}

\* Mutant of bind_telegram_to_user: a plain INSERT into a table without the
\* primary key, so a second registration adds a second row.
bind_insert_only(rows, telegram_id, user_id) ==
    rows \cup {[telegram_id |-> telegram_id, user_id |-> user_id]}

\* INSERT INTO telegram_users ... ON CONFLICT (telegram_id) DO UPDATE SET
\* user_id = EXCLUDED.user_id
bind_telegram_to_user(rows, telegram_id, user_id) ==
    IF \E r \in rows : r.telegram_id = telegram_id
    THEN {IF r.telegram_id = telegram_id THEN [r EXCEPT !.user_id = user_id] ELSE r :
            r \in rows}
    ELSE rows \cup {[telegram_id |-> telegram_id, user_id |-> user_id]}

\* SELECT u.* FROM public.users u JOIN telegram_users t ON t.user_id = u.id
\* WHERE t.telegram_id = %s LIMIT 1: the rows fetchone() may return
get_user_by_telegram(rows, telegram_id) ==
    LET joined == {u \in Users : \E r \in rows :
                      r.telegram_id = telegram_id /\ r.user_id = u.id}
    IN IF joined = {} THEN {NoUser} ELSE joined

\* SELECT code FROM public.groups WHERE id = %s LIMIT 1 ("" stands for None)
get_group_code_by_id(group_id) ==
    IF \E g \in Groups : g.id = group_id
    THEN (CHOOSE g \in Groups : g.id = group_id).code
    ELSE ""

\* SELECT api_id FROM public.teachers WHERE id = %s LIMIT 1 (0 stands for None)
get_teacher_api_id_by_id(teacher_id) ==
    IF \E t \in Teachers : t.id = teacher_id
    THEN (CHOOSE t \in Teachers : t.id = teacher_id).api_id
    ELSE 0

(***************************************************************************)
(* The request builders: the query parameters that vary.                   *)
(***************************************************************************)
NoUrl == [req_mode |-> "", OBJ_name |-> "", OBJ_ID |-> 0,
          begin_date |-> 0, end_date |-> 0]

build_timetable_url_by_group(group_code, begin_date, end_date) ==
    [req_mode |-> "group", OBJ_name |-> group_code, OBJ_ID |-> 0,
     begin_date |-> begin_date, end_date |-> end_date]

build_timetable_url_by_teacher(teacher_api_id, begin_date, end_date) ==
    [req_mode |-> "teacher", OBJ_name |-> "", OBJ_ID |-> teacher_api_id,
     begin_date |-> begin_date, end_date |-> end_date]

(***************************************************************************)
(* Updates: a command, its arguments and the sender's identity.            *)
(***************************************************************************)
Update(cmd, args, id) == [cmd |-> cmd, args |-> args, telegram_id |-> id]

Phones == {u.phone : u \in Users}

UnknownPhone == "+380509999999"

Updates ==
    {Update("start", <<>>, 101), Update("help", <<>>, 101)}
    \cup {Update("group", a, 101) :
            a \in {<<>>, <<"202-1-D", "2024-03-01", "2024-03-10">>}}
    \cup {Update("teacher", a, 101) :
            a \in {<<>>, <<"abc">>, <<"77", "not-a-date", "2024-03-05">>}}
    \cup {Update("register", a, 101) :
            a \in {<<>>, <<UnknownPhone>>} \cup {<<ph>> : ph \in Phones}}
    \cup {Update("register", <<ph>>, 102) :
            ph \in {"+380501111111", "+380502222222"}}
    \cup {Update("me", a, 101) : a \in {<<>>, <<"2024-03-01">>}}
    \cup {Update("me", <<>>, 102)}

\* int(args[0]) of cmd_teacher: the value, or ValueError
IntValue == ("77" :> 77)

(***************************************************************************)
(* One handler invocation.  pc is the await the coroutine is suspended at  *)
(* ("find", "bind", "resolve", "group_code", "teacher_api": a store call   *)
(* in asyncio.to_thread; "fetch": fetch_timetable in asyncio.to_thread),   *)
(* "done" once the handler has returned, "raised" once an exception has    *)
(* left it.  replies are the reply_text calls made, in order.  History     *)
(* kept for the properties: fetches and lookups count the fetch and store  *)
(* calls started, before is the table when the invocation started.         *)
(***************************************************************************)
Idle ==
    [u |-> Update("", <<>>, 0), pc |-> "idle", replies |-> <<>>, fetches |-> 0,
     lookups |-> 0, user |-> NoUser, found |-> "none", branch |-> "none",
     code |-> "none", url |-> NoUrl, outcome |-> "none", before |-> {}]

Terminal == {"idle", "done", "raised"}
StoreCalls == {"find", "bind", "resolve", "group_code", "teacher_api"}

Reply(c, text) == [c EXCEPT !.replies = Append(@, text)]
Return(c) == [c EXCEPT !.pc = "done"]
\* await asyncio.to_thread(<store function>, ...)
AwaitStore(c, call) == [c EXCEPT !.pc = call, !.lookups = @ + 1]
\* await asyncio.to_thread(fetch_timetable, url)
AwaitFetch(c, url) == [c EXCEPT !.pc = "fetch", !.url = url, !.fetches = @ + 1]

\* start, and help_cmd which calls it
start(c) == Return(Reply(c, "help_text"))

\* cmd_group up to its first await of a worker
cmd_group(c, today) ==
    IF c.u.args = <<>> THEN Return(Reply(c, "usage_group"))
    ELSE LET r == parse_optional_dates(Tail(c.u.args), today)
             url == build_timetable_url_by_group(c.u.args[1], r.begin, r.end)
         IN AwaitFetch(Reply(c, "notice"), url)

\* cmd_teacher up to its first await of a worker
cmd_teacher(c, today) ==
    IF c.u.args = <<>> THEN Return(Reply(c, "usage_teacher"))
    ELSE IF c.u.args[1] \notin DOMAIN IntValue
    THEN Return(Reply(c, "api_id_not_a_number"))
    ELSE LET r == parse_optional_dates(Tail(c.u.args), today)
             url == build_timetable_url_by_teacher(IntValue[c.u.args[1]],
                                                   r.begin, r.end)
         IN AwaitFetch(Reply(c, "notice"), url)

\* cmd_register up to its first await of a worker
cmd_register(c) ==
    IF c.u.args = <<>> THEN Return(Reply(c, "usage_register"))
    ELSE AwaitStore(c, "find")

\* cmd_me up to its first await of a worker
cmd_me(c) == AwaitStore(c, "resolve")

\* Mutant of RegisterFound: the "if not user" test is missing, so a lookup
\* miss goes on to bind.
RegisterFoundUnchecked(c, user) ==
    AwaitStore([c EXCEPT !.found = IF user = NoUser THEN "miss" ELSE "hit",
                         !.user = user], "bind")

\* cmd_register after find_user_by_phone returned user
RegisterFound(c, user) ==
    IF user = NoUser
    THEN Return(Reply([c EXCEPT !.found = "miss"], "phone_not_found"))
    ELSE AwaitStore([c EXCEPT !.found = "hit", !.user = user], "bind")

\* cmd_register after bind_telegram_to_user returned
RegisterBound(c) == Return(Reply(c, "bound"))

\* Mutant of MeBranch: the teacher id is tested first.
MeBranchTeacherFirst(user) ==
    IF user.teacher_id # 0 THEN "teacher"
    ELSE IF user.group_id # 0 THEN "group"
    ELSE "none"

\* cmd_me: which profile field decides the mode
MeBranch(user) ==
    IF user.group_id # 0 THEN "group"
    ELSE IF user.teacher_id # 0 THEN "teacher"
    ELSE "none"

\* cmd_me after get_user_by_telegram returned user; the date range is parsed
\* before the branch and kept in url
MeResolved(c, user, today) ==
    IF user = NoUser
    THEN Return(Reply([c EXCEPT !.found = "miss"], "register_first"))
    ELSE LET r == parse_optional_dates(c.u.args, today)
             c1 == [c EXCEPT !.found = "hit", !.user = user,
                             !.branch = MeBranch(user),
                             !.url = [NoUrl EXCEPT !.begin_date = r.begin,
                                                   !.end_date = r.end]]
         IN CASE c1.branch = "group" -> AwaitStore(c1, "group_code")
              [] c1.branch = "teacher" -> AwaitStore(c1, "teacher_api")
              [] OTHER -> Return(Reply(c1, "profile_incomplete"))

\* cmd_me after get_group_code_by_id returned group_code
MeGroupCode(c, group_code) ==
    IF group_code = ""
    THEN Return(Reply([c EXCEPT !.code = "miss"], "group_not_found"))
    ELSE LET url == build_timetable_url_by_group(group_code, c.url.begin_date,
                                                 c.url.end_date)
         IN AwaitFetch(Reply([c EXCEPT !.code = "hit"], "notice"), url)

\* cmd_me after get_teacher_api_id_by_id returned teacher_api_id
MeTeacherApi(c, teacher_api_id) ==
    IF teacher_api_id = 0
    THEN Return(Reply([c EXCEPT !.code = "miss"], "teacher_not_found"))
    ELSE LET url == build_timetable_url_by_teacher(teacher_api_id,
                                                   c.url.begin_date, c.url.end_date)
         IN AwaitFetch(Reply([c EXCEPT !.code = "hit"], "notice"), url)

\* The except clauses around the fetch: the reply for an exception of kind
\* exc ("HTTPError", or any other) raised inside the try block.
ExceptReply(cmd, exc) ==
    IF cmd \in {"group", "teacher"} /\ exc = "HTTPError" THEN "http_error"
    ELSE "generic_error"

\* Mutant of FetchedReplies: the error reply is sent after the result as
\* well (as from a finally clause).
FetchedRepliesThenError(cmd, data) ==
    {<<"formatted", ExceptReply(cmd, "Exception")>>}

\* The try block after fetch_timetable returned data: the replies sent.
\* reply_text of a value that is not a string either sends it or raises.
FetchedReplies(cmd, data) ==
    LET formatted == format_timetable_json(data) IN
    CASE formatted.kind = "str" -> {<<"formatted">>}
      [] formatted.kind = "raise" -> {<<ExceptReply(cmd, formatted.exc)>>}
      [] OTHER -> {<<"formatted">>, <<ExceptReply(cmd, "TypeError")>>}

\* What a successful fetch returns in Spec: one payload of each outcome of
\* the formatter.
FetchPayloads ==
    {Payload(JDict(<< <<"days", JList(<<JDict(<< <<"date", JStr(10)>>,
                                              <<"lessons", JList(<<Lesson(10)>>, 62)>> >>,
                                           80)>>, 82)>> >>, 90), 90),
     Payload(JDict(<< <<"days", JNull>> >>, 14), 14),
     Payload(JDict(<< <<"raw", JList(<<JStr(1)>>, 5)>> >>, 14), 14),
     Payload(JDict(<< <<"code", JNum(1, TRUE)>>, <<"error", JStr(3)>> >>, 30), 30)}

(***************************************************************************)
(* Spec: the application.  main registers the six handlers on an           *)
(* application built with the builder's defaults and runs the polling      *)
(* loop: the poller puts updates into the update queue at any time, and    *)
(* the application takes the next update only when the handler of the      *)
(* previous one has returned or raised (the handlers are blocking ones and *)
(* concurrent update processing is not switched on).  An exception that    *)
(* leaves a handler is logged by the application; the loop goes on.        *)
(***************************************************************************)
NoCall == [args |-> <<>>, today |-> 0, called |-> FALSE,
           result |-> [begin |-> 0, end |-> 0]]
NoFormat == [payload |-> Payload(JNull, 4), called |-> FALSE,
             result |-> Returned(0)]
NotRegistered == [phone |-> "", overwrote |-> FALSE]

Init ==
    /\ telegram_users = {}
    /\ update_queue = <<>>
    /\ cur = Idle
    /\ registered = [t \in TelegramIds |-> NotRegistered]
    /\ pd = NoCall
    /\ fm = NoFormat

\* The poller receives an update.
Receive ==
    /\ Len(update_queue) < MaxQueue
    /\ \E u \in Updates : update_queue' = Append(update_queue, u)
    /\ UNCHANGED <<telegram_users, cur, registered, pd, fm>>

\* The handler of the command, run up to its first await of a worker.
Handle(u, rows, today) ==
    LET c == [Idle EXCEPT !.u = u, !.pc = "running", !.before = rows] IN
    CASE u.cmd = "start" -> start(c)
      [] u.cmd = "help" -> start(c)
      [] u.cmd = "group" -> cmd_group(c, today)
      [] u.cmd = "teacher" -> cmd_teacher(c, today)
      [] u.cmd = "register" -> cmd_register(c)
      [] u.cmd = "me" -> cmd_me(c)

\* The application takes the next update and awaits its handler.
Dispatch ==
    /\ cur.pc \in Terminal
    /\ update_queue # <<>>
    /\ \E today \in Clock : cur' = Handle(Head(update_queue), telegram_users, today)
    /\ update_queue' = Tail(update_queue)
    /\ UNCHANGED <<telegram_users, registered, pd, fm>>

\* find_user_by_phone returns in its worker.
FindReturns ==
    /\ cur.pc = "find"
    /\ \E user \in find_user_by_phone(cur.u.args[1]) : cur' = RegisterFound(cur, user)
    /\ UNCHANGED <<telegram_users, update_queue, registered, pd, fm>>

\* bind_telegram_to_user commits and returns in its worker.
BindReturns ==
    /\ cur.pc = "bind"
    /\ telegram_users' =
           bind_telegram_to_user(telegram_users, cur.u.telegram_id, cur.user.id)
    /\ cur' = RegisterBound(cur)
    /\ registered' =
           [registered EXCEPT ![cur.u.telegram_id] =
               [phone |-> cur.u.args[1],
                overwrote |-> \E r \in telegram_users :
                                 /\ r.telegram_id = cur.u.telegram_id
                                 /\ r.user_id # cur.user.id]]
    /\ UNCHANGED <<update_queue, pd, fm>>

\* get_user_by_telegram returns in its worker.
ResolveReturns ==
    /\ cur.pc = "resolve"
    /\ \E user \in get_user_by_telegram(telegram_users, cur.u.telegram_id) :
         \E today \in Clock : cur' = MeResolved(cur, user, today)
    /\ UNCHANGED <<telegram_users, update_queue, registered, pd, fm>>

\* get_group_code_by_id returns in its worker.
GroupCodeReturns ==
    /\ cur.pc = "group_code"
    /\ cur' = MeGroupCode(cur, get_group_code_by_id(cur.user.group_id))
    /\ UNCHANGED <<telegram_users, update_queue, registered, pd, fm>>

\* get_teacher_api_id_by_id returns in its worker.
TeacherApiReturns ==
    /\ cur.pc = "teacher_api"
    /\ cur' = MeTeacherApi(cur, get_teacher_api_id_by_id(cur.user.teacher_id))
    /\ UNCHANGED <<telegram_users, update_queue, registered, pd, fm>>

\* A store call raises (the store is unavailable): no handler catches it.
StoreFails ==
    /\ cur.pc \in StoreCalls
    /\ cur' = [cur EXCEPT !.pc = "raised"]
    /\ UNCHANGED <<telegram_users, update_queue, registered, pd, fm>>

\* fetch_timetable returns a payload.
FetchReturns ==
    /\ cur.pc = "fetch"
    /\ \E data \in FetchPayloads : \E rs \in FetchedReplies(cur.u.cmd, data) :
         cur' = [cur EXCEPT !.pc = "done", !.outcome = "fetched",
                            !.replies = @ \o rs]
    /\ UNCHANGED <<telegram_users, update_queue, registered, pd, fm>>

\* resp.raise_for_status() raises requests.HTTPError on a non-2xx status.
FetchHttpError ==
    /\ cur.pc = "fetch"
    /\ cur' = [cur EXCEPT !.pc = "done", !.outcome = "http_error",
                          !.replies = Append(@, ExceptReply(cur.u.cmd, "HTTPError"))]
    /\ UNCHANGED <<telegram_users, update_queue, registered, pd, fm>>

\* requests.get raises (connection error, timeout).
FetchFails ==
    /\ cur.pc = "fetch"
    /\ cur' = [cur EXCEPT !.pc = "done", !.outcome = "failed",
                          !.replies = Append(@, ExceptReply(cur.u.cmd, "ConnectionError"))]
    /\ UNCHANGED <<telegram_users, update_queue, registered, pd, fm>>

Next ==
    \/ Receive
    \/ Dispatch
    \/ FindReturns
    \/ BindReturns
    \/ ResolveReturns
    \/ GroupCodeReturns
    \/ TeacherApiReturns
    \/ StoreFails
    \/ FetchReturns
    \/ FetchHttpError
    \/ FetchFails

Spec == Init /\ [][Next]_vars

(***************************************************************************)
(* SpecParse: parse_optional_dates applied once to an argument list of at  *)
(* most MaxArgs texts, on one of the days of Todays.                       *)
(***************************************************************************)
RECURSIVE SeqsUpTo(_, _)
SeqsUpTo(S, n) ==
    IF n = 0 THEN {<<>>}
    ELSE SeqsUpTo(S, n - 1)
         \cup {Append(q, x) : q \in {r \in SeqsUpTo(S, n - 1) : Len(r) = n - 1}, x \in S}

InitParse ==
    /\ telegram_users = {}
    /\ update_queue = <<>>
    /\ cur = Idle
    /\ registered = [t \in TelegramIds |-> NotRegistered]
    /\ fm = NoFormat
    /\ \E a \in SeqsUpTo(ArgTexts, MaxArgs) : \E today \in Todays :
         pd = [NoCall EXCEPT !.args = a, !.today = today]

ParseCall ==
    /\ ~pd.called
    /\ pd' = [pd EXCEPT !.called = TRUE,
                        !.result = parse_optional_dates(pd.args, pd.today)]
    /\ UNCHANGED <<telegram_users, update_queue, cur, registered, fm>>

SpecParse == InitParse /\ [][ParseCall]_vars

(***************************************************************************)
(* SpecFormat: format_timetable_json applied once to a payload.            *)
(***************************************************************************)
InitFormat ==
    /\ telegram_users = {}
    /\ update_queue = <<>>
    /\ cur = Idle
    /\ registered = [t \in TelegramIds |-> NotRegistered]
    /\ pd = NoCall
    /\ \E p \in Payloads : fm = [NoFormat EXCEPT !.payload = p]

FormatCall ==
    /\ ~fm.called
    /\ fm' = [fm EXCEPT !.called = TRUE,
                        !.result = format_timetable_json(fm.payload)]
    /\ UNCHANGED <<telegram_users, update_queue, cur, registered, pd>>

SpecFormat == InitFormat /\ [][FormatCall]_vars

(***************************************************************************)
(* Properties of Spec.                                                     *)
(***************************************************************************)
Finished == cur.pc \in {"done", "raised"}
Suspended == cur.pc \in StoreCalls \cup {"fetch"}

RECURSIVE Count(_, _)
Count(x, q) ==
    IF q = <<>> THEN 0 ELSE (IF Head(q) = x THEN 1 ELSE 0) + Count(x, Tail(q))

UserWithPhone(phone) == CHOOSE u \in Users : u.phone = phone

\* C1: every command invocation ends with at least one reply sent, and no
\* exception leaves the handler, also when a store call fails.
C1_EveryInvocationReplies ==
    Finished => (cur.pc = "done" /\ Len(cur.replies) >= 1)

\* C2 as stated: an invocation that returns has sent exactly one message.
C2_ExactlyOneReply ==
    cur.pc = "done" => Len(cur.replies) = 1

\* C2 as amended: an invocation sends one interim notice exactly when it
\* starts a remote fetch (which it does at most once), and at most one
\* other message, its result, error, usage or guidance reply; an invocation
\* that returns has sent exactly one such reply, as its last message (so one
\* or two messages in all); an invocation that a store failure ends has
\* sent nothing.
C2_NoticeThenOneReply ==
    LET notices == Count("notice", cur.replies)
        finals == Len(cur.replies) - notices
    IN /\ notices = cur.fetches
       /\ cur.fetches <= 1
       /\ finals <= 1
       /\ Len(cur.replies) <= 2
       /\ cur.pc = "fetch" => cur.replies = <<"notice">>
       /\ cur.pc = "done" => finals = 1 /\ cur.replies[Len(cur.replies)] # "notice"
       /\ cur.pc = "raised" => cur.replies = <<>>

C2_Witness ==
    /\ cur.pc = "done"
    /\ cur.u.cmd = "group"
    /\ cur.replies = <<"notice", "formatted">>

\* C3: an invocation of /group, /teacher or /me whose fetch got a non-2xx
\* status sends exactly one reply with the HTTP-error wording, none with the
\* generic wording, and has called the fetch exactly once.
C3_HttpErrorReply ==
    (cur.pc = "done" /\ cur.outcome = "http_error") =>
        /\ Count("http_error", cur.replies) = 1
        /\ Count("generic_error", cur.replies) = 0
        /\ cur.fetches = 1

\* C4: a /register whose phone is no user's phone leaves telegram_users as it
\* was when the invocation started, never starts the bind, and when it
\* returns its one reply is the not-found message; a /register without an
\* argument returns at once with the usage hint as its one reply, no store
\* call made and the table unchanged.
C4_RegisterMissNoBinding ==
    cur.u.cmd = "register" =>
        /\ cur.u.args = <<>> =>
              /\ cur.pc = "done"
              /\ cur.replies = <<"usage_register">>
              /\ cur.lookups = 0
              /\ telegram_users = cur.before
        /\ (cur.u.args # <<>> /\ cur.u.args[1] \notin Phones) =>
              /\ telegram_users = cur.before
              /\ cur.pc \in {"find", "done", "raised"}
              /\ cur.lookups = 1
              /\ cur.pc = "done" => cur.replies = <<"phone_not_found">>

C4_Witness ==
    /\ cur.u.cmd = "register"
    /\ cur.u.args = <<UnknownPhone>>
    /\ cur.pc = "done"
    /\ cur.replies = <<"phone_not_found">>
    /\ telegram_users # {}

\* C5: telegram_users holds at most one row per identity; the row of an
\* identity whose last completed /register named an existing phone points to
\* that phone's user; and a /me of that identity resolves that user.
C5_OneBindingLastWins ==
    /\ \A t \in TelegramIds :
          Cardinality({r \in telegram_users : r.telegram_id = t}) <= 1
    /\ \A r \in telegram_users : r.telegram_id \in TelegramIds
    /\ \A t \in TelegramIds :
          registered[t].phone # "" =>
              /\ registered[t].phone \in Phones
              /\ [telegram_id |-> t, user_id |-> UserWithPhone(registered[t].phone).id]
                     \in telegram_users
    /\ (/\ cur.u.cmd = "me"
        /\ cur.found # "none"
        /\ registered[cur.u.telegram_id].phone # "") =>
           /\ cur.found = "hit"
           /\ cur.user = UserWithPhone(registered[cur.u.telegram_id].phone)

\* An identity registered twice, with the phones of two users, then /me.
C5_Witness ==
    /\ cur.u.cmd = "me"
    /\ cur.found = "hit"
    /\ registered[cur.u.telegram_id].overwrote
    /\ cur.user.phone = registered[cur.u.telegram_id].phone

\* C8: /me of a resolved user takes the group branch when the user has a
\* group id, also with a teacher id set, and the teacher branch only without
\* a group id; when the branch's code or api id is not found the one reply
\* is the branch's not-found message and no fetch is started; with neither
\* id the one reply is the incomplete-profile message and no fetch is
\* started.
C8_MeGroupFirst ==
    (cur.u.cmd = "me" /\ cur.found = "hit") =>
        LET usr == cur.user IN
        /\ usr.group_id # 0 =>
              /\ cur.pc \in {"group_code", "fetch", "done", "raised"}
              /\ Count("teacher_not_found", cur.replies) = 0
              /\ cur.fetches > 0 =>
                    /\ cur.url.req_mode = "group"
                    /\ cur.url.OBJ_name = get_group_code_by_id(usr.group_id)
              /\ get_group_code_by_id(usr.group_id) = "" =>
                    /\ cur.fetches = 0
                    /\ cur.pc = "done" => cur.replies = <<"group_not_found">>
        /\ (usr.group_id = 0 /\ usr.teacher_id # 0) =>
              /\ cur.pc \in {"teacher_api", "fetch", "done", "raised"}
              /\ Count("group_not_found", cur.replies) = 0
              /\ cur.fetches > 0 =>
                    /\ cur.url.req_mode = "teacher"
                    /\ cur.url.OBJ_ID = get_teacher_api_id_by_id(usr.teacher_id)
              /\ get_teacher_api_id_by_id(usr.teacher_id) = 0 =>
                    /\ cur.fetches = 0
                    /\ cur.pc = "done" => cur.replies = <<"teacher_not_found">>
        /\ (usr.group_id = 0 /\ usr.teacher_id = 0) =>
              /\ cur.pc = "done"
              /\ cur.replies = <<"profile_incomplete">>
              /\ cur.fetches = 0
              /\ cur.lookups = 1

\* A user with both ids whose /me fetched the group's timetable.
C8_Witness ==
    /\ cur.u.cmd = "me"
    /\ cur.found = "hit"
    /\ cur.user.group_id # 0
    /\ cur.user.teacher_id # 0
    /\ cur.pc = "done"
    /\ cur.url.req_mode = "group"
    /\ cur.replies = <<"notice", "formatted">>

\* C10: while an invocation is suspended on a store call or a fetch in a
\* worker and an update is waiting, the application is able to start the
\* handler of that update.
C10_DispatchWhileSuspended ==
    (Suspended /\ update_queue # <<>>) => ENABLED Dispatch

(***************************************************************************)
(* Properties of SpecParse.                                                *)
(***************************************************************************)
IsDateText(a) == a \in DOMAIN DateValue

ParsedDates(args) ==
    LET texts == SelectSeq(args, IsDateText)
    IN [i \in 1..Len(texts) |-> DateValue[texts[i]]]

\* C6: begin is the first argument that parses as a date, or today; end is
\* the second one that parses, or today + 6 days; the other arguments do
\* not matter.
C6_FirstTwoParsedDates ==
    pd.called =>
        LET dates == ParsedDates(pd.args) IN
        /\ pd.result.begin = IF Len(dates) >= 1 THEN dates[1] ELSE pd.today
        /\ pd.result.end = IF Len(dates) >= 2 THEN dates[2]
                           ELSE pd.today + DefaultSpan

(***************************************************************************)
(* Properties of SpecFormat.                                               *)
(***************************************************************************)
\* C7: the text format_timetable_json returns has at most 4000 characters,
\* whichever branch returns it.
C7_OutputAtMostLimit ==
    (fm.called /\ fm.result.kind = "str") => fm.result.len <= Limit

\* C9: format_timetable_json returns a string for every payload: it raises
\* nothing and returns nothing else.
C9_FormatTotal ==
    fm.called => fm.result.kind = "str"

====
